---- MODULE Spec2Model ----
(***************************************************************************)
(* PyPlugs: the registry _PLUGINS, the registration decorator, discovery   *)
(* (_import, _import_all) and the lookups (names, funcs, labels, info,     *)
(* exists, get, call) of src/src/pyplugs/_plugins.py.                      *)
(*                                                                         *)
(* Dotted module names are sequences of segments: "pkg.plugin_parts" is    *)
(* <<"pkg", "plugin_parts">>.  An exception is a record [type, msg] whose  *)
(* msg is the set of dotted names that its message quotes, which is all    *)
(* that `repr(name) in err.msg` reads of it.                               *)
(***************************************************************************)
EXTENDS Integers, Sequences, FiniteSets, TLC

VARIABLES
    store,      \* _PLUGINS: package -> plugin -> func_name -> PluginInfo
    modules,    \* sys.modules: the modules whose import completed
    regLog,     \* history: per package, the register calls in the order made
    ret,        \* the call that has just returned: its arguments and outcome
    nreg,       \* number of register calls made outside the Loader
    loading,    \* the import that another thread is in the middle of
    appeared    \* the plug-in files created since the program started

vars == <<store, modules, regLog, ret, nreg, loading, appeared>>

\* Bound on the register calls made by code outside the plug-in files.
MaxRegister == 1

\* sort_value when register is used without one.
DefaultSortValue == 0

\* Python's None, as label or func argument.
None == "None"

\* The name info() looks up when the label partition is empty.
NotFound == ""

-----------------------------------------------------------------------------
(* Exceptions *)

NoError == [type |-> "none", msg |-> {}]

Raise(type, quoted) == [type |-> type, msg |-> quoted]

\* ModuleNotFoundError is a subclass of ImportError.
IsImportError(e) == e.type \in {"ImportError", "ModuleNotFoundError"}

UnknownPackageError(package) == Raise("UnknownPackageError", {package})

UnknownPluginError(package, plugin) ==
    Raise("UnknownPluginError", {<<plugin>>, package})

UnknownPluginFunctionError(package, plugin, func, label) ==
    Raise("UnknownPluginFunctionError", {<<func>>, Append(package, plugin)})

\* A plain dict lookup that misses.
KeyError == Raise("KeyError", {})

\* The taxonomy of _exceptions.py: the subclasses of PyPlugsError.
IsPyPlugsError(e) ==
    e.type \in {"UnknownPackageError", "UnknownPluginError",
                "UnknownPluginFunctionError"}

-----------------------------------------------------------------------------
(* Python dicts: insertion-ordered, as sequences of [k, v] entries *)

DictHas(d, k) == \E i \in 1..Len(d) : d[i].k = k

DictGet(d, k) == d[CHOOSE i \in 1..Len(d) : d[i].k = k].v

DictKeys(d) == [i \in 1..Len(d) |-> d[i].k]

\* Mutant of DictSet: a key set again moves to the front.
DictSetMovesFirst(d, k, v) ==
    IF \E i \in 1..Len(d) : d[i].k = k
    THEN LET others(e) == e.k # k
         IN  <<[k |-> k, v |-> v]>> \o SelectSeq(d, others)
    ELSE Append(d, [k |-> k, v |-> v])

\* Mutant of DictSet: the entry is added whether or not the key is present.
DictSetAppends(d, k, v) == Append(d, [k |-> k, v |-> v])

\* Mutant of DictSet: a present key keeps the value it has.
DictSetKeepsFirst(d, k, v) ==
    IF \E i \in 1..Len(d) : d[i].k = k THEN d ELSE Append(d, [k |-> k, v |-> v])

\* Mutant of DictSet: a key set again moves to the end.
DictSetMovesLast(d, k, v) ==
    LET others(e) == e.k # k
    IN  Append(SelectSeq(d, others), [k |-> k, v |-> v])

\* d[k] = v: a present key keeps its position, a new key goes last.
DictSet(d, k, v) ==
    IF DictHas(d, k)
    THEN [i \in 1..Len(d) |-> IF d[i].k = k THEN [k |-> k, v |-> v] ELSE d[i]]
    ELSE Append(d, [k |-> k, v |-> v])

\* d.setdefault(k, {}) for the whole mapping after the call.
DictSetDefault(d, k) == IF DictHas(d, k) THEN d ELSE Append(d, [k |-> k, v |-> <<>>])

\* `package in _PLUGINS and plugin in _PLUGINS[package]`
InPlugins(plugins, package, plugin) ==
    /\ package \in DOMAIN plugins
    /\ DictHas(plugins[package], plugin)

-----------------------------------------------------------------------------
(* The functions that get decorated, and the files that define them *)

\* A function object: its __module__, __name__, __doc__ (paragraphs, split at
\* the blank lines) and what calling it returns.
Func(module, name, doc, result) ==
    [module |-> module, name |-> name, doc |-> doc, result |-> result]

\* One `@pyplugs.register(...)` statement of a file.
Reg(func, sort_value, label) ==
    [func |-> func, sort_value |-> sort_value, label |-> label]

Pkg == <<"pkg">>
Bad == <<"bad">>
Lab == <<"lab">>
Empty == <<"empty">>
Ext == <<"ext">>
Mis == <<"ext", "mis">>

\* The packages that exist on the import path.
Packages == {Pkg, Bad, Lab, Empty, Ext, Mis}

\* The top-level code of each plug-in file: its register statements in
\* order, then the exception that ends it (NoError: it runs to its end).
Script(m) ==
    CASE m = <<"pkg", "plugin_first">> ->
           [regs |-> << Reg(Func(m, "plugin_first", <<"Add a sort value">>, "first"),
                            -10, None) >>,
            raises |-> NoError]
      [] m = <<"pkg", "plugin_last">> ->
           [regs |-> << Reg(Func(m, "plugin_last", <<"Add a sort value">>, "last"),
                            10, None) >>,
            raises |-> NoError]
      [] m = <<"pkg", "plugin_parts">> ->
           [regs |-> << Reg(Func(m, "plugin_default", <<"Register this first">>, "default"),
                            DefaultSortValue, None),
                        Reg(Func(m, "plugin_next", <<"Register the next">>, "next"),
                            DefaultSortValue, None),
                        Reg(Func(m, "plugin_final", <<"Register the final">>, "final"),
                            DefaultSortValue, None) >>,
            raises |-> NoError]
      [] m = <<"pkg", "plugin_labels">> ->
           [regs |-> << Reg(Func(m, "plugin_one", <<"Regular">>, "one"),
                            DefaultSortValue, None),
                        Reg(Func(m, "plugin_two", <<"Second regular">>, "two"),
                            DefaultSortValue, None),
                        Reg(Func(m, "plugin_first_label", <<"Labeled">>, "first"),
                            DefaultSortValue, "label"),
                        Reg(Func(m, "plugin_second_label", <<"Another labeled">>, "second"),
                            DefaultSortValue, "label"),
                        Reg(Func(m, "plugin_final_label", <<"Different label">>, "final"),
                            DefaultSortValue, "another_label") >>,
            raises |-> NoError]
      [] m = <<"pkg", "no_plugins">> ->
           [regs |-> << >>, raises |-> NoError]
      [] m = <<"pkg", "plugin_with_import_error">> ->
           [regs |-> << >>,
            raises |-> Raise("ModuleNotFoundError", {<<"non_existent_package">>})]
      [] m = <<"lab", "only_label">> ->
           [regs |-> << Reg(Func(m, "labeled", <<"Only labeled">>, "labeled"),
                            DefaultSortValue, "label") >>,
            raises |-> NoError]
      [] m = <<"bad", "broken">> ->
           [regs |-> << Reg(Func(m, "before_crash", << >>, "before"),
                            DefaultSortValue, None) >>,
            raises |-> Raise("ZeroDivisionError", {})]
      [] m = <<"pkg", "plugin_added">> ->
           [regs |-> << Reg(Func(m, "plugin_added", <<"Created later">>, "added"),
                            -5, None),
                        Reg(Func(m, "added_low", <<"Lower sort value">>, "low"),
                            -30, None),
                        Reg(Func(m, "added_labeled", <<"Labeled">>, "labeled"),
                            20, "label") >>,
            raises |-> NoError]
      [] m = <<"pkg", "labeled_added">> ->
           [regs |-> << Reg(Func(m, "labeled_added", <<"Created later">>, "labeled"),
                            DefaultSortValue, "label") >>,
            raises |-> NoError]
      [] m = <<"pkg", "_hidden">> ->
           [regs |-> << Reg(Func(m, "hidden", <<"Not a plug-in">>, "hidden"),
                            -20, None) >>,
            raises |-> NoError]
      [] m = <<"ext", "mis", "half">> ->
           \* `from ext.mis import helper` after a registration: "cannot
           \* import name 'helper' from 'ext.mis'"
           [regs |-> << Reg(Func(m, "first", << >>, "first"),
                            DefaultSortValue, None) >>,
            raises |-> Raise("ImportError", {<<"helper">>, <<"ext", "mis">>})]
      [] m = <<"ext", "mis", "sub">> ->
           \* `import ext.mis.sub.extra` after a registration: "No module
           \* named 'ext.mis.sub.extra'; 'ext.mis.sub' is not a package"
           [regs |-> << Reg(Func(m, "first", << >>, "first"),
                            DefaultSortValue, None) >>,
            raises |-> Raise("ModuleNotFoundError",
                             {<<"ext", "mis", "sub", "extra">>,
                              <<"ext", "mis", "sub">>})]
      [] m = <<"bad", "late">> ->
           [regs |-> << Reg(Func(m, "late", <<"Listed after broken">>, "late"),
                            DefaultSortValue, None) >>,
            raises |-> NoError]
      [] OTHER -> [regs |-> << >>, raises |-> NoError]

\* The functions whose body raises when they are called.
RaisingFuncs == {"late"}

\* func(*args): a function returns its own value together with the
\* arguments it was given, or raises its own exception.
Invoke(func, args) ==
    IF func.name \in RaisingFuncs
    THEN [exc |-> [type |-> "ValueError", msg |-> {<<func.name>>}], val |-> "None"]
    ELSE [exc |-> [type |-> "none", msg |-> {}], val |-> <<func.result>> \o args]

\* resources.files(package).iterdir(): the entries of the package's
\* directory, in the order the file system lists them.
Resource(name, ext) == [name |-> name, ext |-> ext]

Resources(package) ==
    CASE package = Pkg ->
           << Resource("__init__", ".py"),
              Resource("plugin_labels", ".py"),
              Resource("no_plugins", ".py"),
              Resource("plugin_last", ".py"),
              Resource("plugin_parts", ".py"),
              Resource("plugin_with_import_error", ".py"),
              Resource("plugin_first", ".py"),
              Resource("_hidden", ".py"),
              Resource("notes", ".txt"),
              Resource("__pycache__", "") >>
      [] package = Bad ->
           << Resource("__init__", ".py"),
              Resource("broken", ".py"),
              Resource("late", ".py") >>
      [] package = Ext ->
           << Resource("__init__", ".py"),
              Resource("mis", "") >>
      [] package = Mis ->
           << Resource("__init__", ".py"),
              Resource("half", ".py"),
              Resource("sub", ".py") >>
      [] package = Lab ->
           << Resource("only_label", ".py"),
              Resource("__init__", ".py") >>
      [] OTHER -> << Resource("__init__", ".py") >>

\* The files that can be created while the program runs.
NewFiles ==
    { [package |-> Pkg, name |-> "plugin_added"],
      [package |-> Pkg, name |-> "labeled_added"] }

\* The files created so far in a package, in a fixed order.
RECURSIVE SeqOf(_)
SeqOf(S) ==
    IF S = {} THEN << >>
    ELSE LET x == CHOOSE y \in S : TRUE IN <<x>> \o SeqOf(S \ {x})

\* The directory of a package as it is now: the files it started with, then
\* those created since.
Listing(package) ==
    IF appeared = {} THEN Resources(package)
    ELSE Resources(package)
         \o SeqOf({ Resource(f.name, ".py") :
                    f \in {g \in appeared : g.package = package} })

\* r.startswith("_"), over the names that occur.
StartsWithUnderscore(name) == name \in {"__init__", "__pycache__", "_hidden"}

\* A module exists when it is a package or a .py file of one.
ModuleExists(m) ==
    \/ m \in Packages
    \/ /\ Len(m) > 1
       /\ SubSeq(m, 1, Len(m) - 1) \in Packages
       /\ \/ \E i \in 1..Len(Resources(SubSeq(m, 1, Len(m) - 1))) :
                Resources(SubSeq(m, 1, Len(m) - 1))[i] = Resource(m[Len(m)], ".py")
          \/ [package |-> SubSeq(m, 1, Len(m) - 1), name |-> m[Len(m)]] \in appeared

-----------------------------------------------------------------------------
(* Registration: register / decorator_register *)

\* The docstring of a module, "" when it has none.
ModuleDoc(m) ==
    CASE m = <<"pkg", "plugin_parts">> -> "Example of a plug-in consisting of several parts."
      [] m = <<"pkg", "no_plugins">> -> "Example of a module that is not a plug-in."
      [] OTHER -> ""

\* Mutant of rpartition: a name without separator is what precedes, as
\* name.partition(".") has it.
rpartitionAsPartition(name) ==
    IF Len(name) = 1 THEN [head |-> name, tail |-> ""]
    ELSE [head |-> SubSeq(name, 1, Len(name) - 1), tail |-> name[Len(name)]]

\* name.rpartition("."): what precedes the last separator, and what follows.
rpartition(name) ==
    [head |-> SubSeq(name, 1, Len(name) - 1), tail |-> name[Len(name)]]

PluginInfo(package_name, plugin_name, func_name, func, description, doc, module_doc, sort_value, label) ==
    [package_name |-> package_name, plugin_name |-> plugin_name,
     func_name |-> func_name, func |-> func, description |-> description,
     doc |-> doc, module_doc |-> module_doc, sort_value |-> sort_value,
     label |-> label]

\* Mutant of SetDefaultPackage: `_PLUGINS[package] = {}` in its place.
SetDefaultPackageResets(plugins, package) ==
    [p \in DOMAIN plugins \cup {package} |->
        IF p = package THEN << >> ELSE plugins[p]]

\* _PLUGINS.setdefault(package, {}) for the whole registry after the call.
SetDefaultPackage(plugins, package) ==
    IF package \in DOMAIN plugins THEN plugins ELSE plugins @@ (package :> << >>)

\* The entry the history keeps of one register call.
LogEntry(plugin_name, func_name, sort_value, label, func) ==
    [plugin |-> plugin_name, func_name |-> func_name, sort_value |-> sort_value,
     label |-> label, func |-> func]

LogAppend(log, package, entry) ==
    IF package \in DOMAIN log
    THEN [log EXCEPT ![package] = Append(@, entry)]
    ELSE log @@ (package :> <<entry>>)

\* decorator_register(func) of register(sort_value=..., label=...), on the
\* interpreter state st = [plugins, modules, log, loads, execs]: loads are
\* the modules the Loader was invoked for during the call, execs those whose
\* code it ran.
decorator_register(st, func, sort_value, label) ==
    LET package_name == rpartition(func.module).head
        plugin_name  == rpartition(func.module).tail
        description  == IF func.doc = << >> THEN "" ELSE Head(func.doc)
        doc          == IF func.doc = << >> THEN << >> ELSE Tail(func.doc)
        func_name    == func.name
        module_doc   == ModuleDoc(func.module)
        plugins1     == SetDefaultPackage(st.plugins, package_name)
        pkg_info     == DictSetDefault(plugins1[package_name], plugin_name)
        plugin_info  == DictSet(DictGet(pkg_info, plugin_name), func_name,
                                PluginInfo(package_name, plugin_name, func_name,
                                           func, description, doc, module_doc,
                                           sort_value, label))
    IN  [st EXCEPT
           !.plugins = [plugins1 EXCEPT
                          ![package_name] = DictSet(pkg_info, plugin_name, plugin_info)],
           !.log = LogAppend(@, package_name,
                             LogEntry(plugin_name, func_name, sort_value, label, func))]

-----------------------------------------------------------------------------
(* The Loader: importlib.import_module *)

\* The shortest prefix of a dotted name that is no module, << >> if none.
RECURSIVE FirstMissingFrom(_, _)
FirstMissingFrom(m, i) ==
    IF i > Len(m) THEN << >>
    ELSE IF ~ModuleExists(SubSeq(m, 1, i)) THEN SubSeq(m, 1, i)
    ELSE FirstMissingFrom(m, i + 1)

FirstMissing(m) == FirstMissingFrom(m, 1)

\* The one element of a singleton set.  `The({e(x) : x \in {v}})` is e with
\* x naming the value of v, computed once.
The(S) == CHOOSE x \in S : TRUE

\* The register statements of a file, run in order.
RECURSIVE RunRegs(_, _, _)
RunRegs(st, regs, i) ==
    IF i > Len(regs) THEN st
    ELSE The({ RunRegs(st1, regs, i + 1) :
               st1 \in {decorator_register(st, regs[i].func, regs[i].sort_value,
                                           regs[i].label)} })

\* The file's code has run on st1: the module stays in sys.modules only if
\* the code ran to its end.
Executed(st1, m) ==
    IF Script(m).raises = NoError
    THEN [st |-> [st1 EXCEPT !.modules = @ \cup {m}], exc |-> NoError]
    ELSE [st |-> st1, exc |-> Script(m).raises]

\* importlib.import_module(m): [st, exc].  A module already in sys.modules is
\* returned as it is; a missing one is a ModuleNotFoundError naming the first
\* missing module; otherwise the file's code runs.
import_module(st, m) ==
    LET st0 == [st EXCEPT !.loads = Append(@, m)]
    IN  IF m \in st.modules THEN [st |-> st0, exc |-> NoError]
        ELSE IF FirstMissing(m) # << >>
        THEN [st |-> st0, exc |-> Raise("ModuleNotFoundError", {FirstMissing(m)})]
        ELSE The({ Executed(st1, m) :
                   st1 \in {RunRegs([st0 EXCEPT !.execs = Append(@, m)],
                                    Script(m).regs, 1)} })

-----------------------------------------------------------------------------
(* Discovery: _import and _import_all *)

\* The except clause of _import, on the outcome r of import_module.
Classify(r, package, plugin) ==
    IF IsImportError(r.exc)
    THEN IF Append(package, plugin) \in r.exc.msg
         THEN [st |-> r.st, exc |-> UnknownPluginError(package, plugin)]
         ELSE IF package \in r.exc.msg
         THEN [st |-> r.st, exc |-> UnknownPackageError(package)]
         ELSE r
    ELSE r

\* Mutant of _import: the attempt is noted by an entry for the plug-in, as
\* _import_all notes it for the package.
ImportNotingAttempt(st, package, plugin) ==
    IF InPlugins(st.plugins, package, plugin)
    THEN [st |-> st, exc |-> NoError]
    ELSE The({ Classify([r EXCEPT !.st.plugins =
                            The({ [p1 EXCEPT ![package] = DictSetDefault(@, plugin)] :
                                  p1 \in {SetDefaultPackage(@, package)} })],
                        package, plugin) :
               r \in {import_module(st, Append(package, plugin))} })

\* _import(package, plugin): [st, exc]
_import(st, package, plugin) ==
    IF InPlugins(st.plugins, package, plugin)
    THEN [st |-> st, exc |-> NoError]
    ELSE The({ Classify(r, package, plugin) :
               r \in {import_module(st, Append(package, plugin))} })

\* Mutant of PluginFiles: the names with the private prefix are kept.
PluginFilesWithPrivate(all_resources) ==
    LET keep(r) == r.ext = ".py"
        kept == SelectSeq(all_resources, keep)
    IN  [i \in 1..Len(kept) |-> kept[i].name]

\* The plug-in names _import_all takes from the directory listing.
PluginFiles(all_resources) ==
    LET keep(r) == r.ext = ".py" /\ ~StartsWithUnderscore(r.name)
        kept == SelectSeq(all_resources, keep)
    IN  [i \in 1..Len(kept) |-> kept[i].name]

\* Whether contextlib.suppress(ImportError) lets the loop go on after exc.
Suppressed(exc) == exc = NoError \/ IsImportError(exc)

\* The loop of _import_all from its i-th plug-in on: an ImportError of one
\* plug-in is suppressed, any other exception ends the loop.
RECURSIVE ImportLoop(_, _, _, _)
ImportLoop(st, package, plugins, i) ==
    IF i > Len(plugins) THEN [st |-> st, exc |-> NoError]
    ELSE The({ IF Suppressed(r.exc)
               THEN ImportLoop(r.st, package, plugins, i + 1)
               ELSE r :
               r \in {_import(st, package, plugins[i])} })

\* resources.files(package).iterdir(): [exc, val].  The package is imported
\* first: a missing one is a ModuleNotFoundError naming the first missing
\* module.
files(package) ==
    IF FirstMissing(package) # << >>
    THEN [exc |-> Raise("ModuleNotFoundError", {FirstMissing(package)}),
          val |-> << >>]
    ELSE [exc |-> NoError, val |-> Listing(package)]

\* Mutant of ImportAllAfterListing: the ImportError is told apart by the
\* names its message quotes, as _import does.
ImportAllByMessage(st, listing, package) ==
    IF IsImportError(listing.exc) /\ package \in listing.exc.msg
    THEN [st |-> st, exc |-> UnknownPackageError(package)]
    ELSE IF listing.exc # NoError THEN [st |-> st, exc |-> listing.exc]
    ELSE The({ ImportLoop(st1, package, PluginFiles(listing.val), 1) :
               st1 \in {[st EXCEPT !.plugins = SetDefaultPackage(@, package)]} })

\* Mutant of ImportAllAfterListing: the package gets no entry of its own.
ImportAllWithoutEntry(st, listing, package) ==
    IF IsImportError(listing.exc)
    THEN [st |-> st, exc |-> UnknownPackageError(package)]
    ELSE IF listing.exc # NoError THEN [st |-> st, exc |-> listing.exc]
    ELSE ImportLoop(st, package, PluginFiles(listing.val), 1)

\* _import_all once the listing was attempted: an ImportError of the listing
\* becomes UnknownPackageError; otherwise the package gets its entry and the
\* plug-in files are imported.
ImportAllAfterListing(st, listing, package) ==
    IF IsImportError(listing.exc)
    THEN [st |-> st, exc |-> UnknownPackageError(package)]
    ELSE IF listing.exc # NoError THEN [st |-> st, exc |-> listing.exc]
    ELSE The({ ImportLoop(st1, package, PluginFiles(listing.val), 1) :
               st1 \in {[st EXCEPT !.plugins = SetDefaultPackage(@, package)]} })

\* _import_all(package): [st, exc]
_import_all(st, package) ==
    The({ ImportAllAfterListing(st, listing, package) :
          listing \in {files(package)} })

-----------------------------------------------------------------------------
(* Lookups: each returns [st, exc, val] *)

Returned(st, val) == [st |-> st, exc |-> NoError, val |-> val]

Raised(st, exc) == [st |-> st, exc |-> exc, val |-> None]

\* Mutant of FuncsOf: the label filter is dropped.
FuncsOfAnyLabel(plugin_info, label) == DictKeys(plugin_info)

\* [k for k, v in plugin_info.items() if v.label == label]
FuncsOf(plugin_info, label) ==
    LET match(e) == e.v.label = label
    IN  DictKeys(SelectSeq(plugin_info, match))

\* funcs(package, plugin, label) once _import has returned r.
FuncsAfterImport(r, package, plugin, label) ==
    IF r.exc # NoError THEN Raised(r.st, r.exc)
    ELSE IF ~InPlugins(r.st.plugins, package, plugin) THEN Raised(r.st, KeyError)
    ELSE Returned(r.st, FuncsOf(DictGet(r.st.plugins[package], plugin), label))

\* funcs(package, plugin, label)
funcs(st, package, plugin, label) ==
    The({ FuncsAfterImport(r, package, plugin, label) :
          r \in {_import(st, package, plugin)} })

\* Mutant of LabelsOf: None is not left out.
LabelsOfWithNone(plugin_info) ==
    {plugin_info[i].v.label : i \in 1..Len(plugin_info)}

\* {p.label for p in plugin_info.values() if p.label is not None}
LabelsOf(plugin_info) ==
    {plugin_info[i].v.label : i \in 1..Len(plugin_info)} \ {None}

\* labels(package, plugin) once _import has returned r.
LabelsAfterImport(r, package, plugin) ==
    IF r.exc # NoError THEN Raised(r.st, r.exc)
    ELSE IF ~InPlugins(r.st.plugins, package, plugin) THEN Raised(r.st, KeyError)
    ELSE Returned(r.st, LabelsOf(DictGet(r.st.plugins[package], plugin)))

\* labels(package, plugin)
labels(st, package, plugin) ==
    The({ LabelsAfterImport(r, package, plugin) :
          r \in {_import(st, package, plugin)} })

\* Mutant of InfoSelect: the label of the record found is not compared.
InfoSelectAnyLabel(fr, plugin_info, package, plugin, label) ==
    LET func == Head(fr.val \o <<NotFound>>)
    IN  IF fr.exc # NoError THEN fr
        ELSE IF ~DictHas(plugin_info, func)
        THEN Raised(fr.st, UnknownPluginFunctionError(package, plugin, func, None))
        ELSE Returned(fr.st, DictGet(plugin_info, func))

\* The end of info(): the look-up of the name fr.val gives (the given func,
\* or the first of funcs() followed by ""), then the label check.
InfoSelect(fr, plugin_info, package, plugin, label) ==
    LET func == Head(fr.val \o <<NotFound>>)
    IN  IF fr.exc # NoError THEN fr
        ELSE IF ~DictHas(plugin_info, func)
        THEN Raised(fr.st, UnknownPluginFunctionError(package, plugin, func, None))
        ELSE IF DictGet(plugin_info, func).label # label
        THEN Raised(fr.st, UnknownPluginFunctionError(package, plugin, func, label))
        ELSE Returned(fr.st, DictGet(plugin_info, func))

\* Mutant of InfoAfterImport: the KeyError of the plug-in look-up is not
\* turned into UnknownPluginError.
InfoAfterImportKeyError(r, package, plugin, func, label) ==
    IF r.exc # NoError THEN Raised(r.st, r.exc)
    ELSE IF ~InPlugins(r.st.plugins, package, plugin)
    THEN Raised(r.st, KeyError)
    ELSE The({ InfoSelect(fr, DictGet(r.st.plugins[package], plugin),
                          package, plugin, label) :
               fr \in {IF func = None
                       THEN funcs(r.st, package, plugin, label)
                       ELSE Returned(r.st, <<func>>)} })

\* info(package, plugin, func, label) once _import has returned r.
InfoAfterImport(r, package, plugin, func, label) ==
    IF r.exc # NoError THEN Raised(r.st, r.exc)
    ELSE IF ~InPlugins(r.st.plugins, package, plugin)
    THEN Raised(r.st, UnknownPluginError(package, plugin))
    ELSE The({ InfoSelect(fr, DictGet(r.st.plugins[package], plugin),
                          package, plugin, label) :
               fr \in {IF func = None
                       THEN funcs(r.st, package, plugin, label)
                       ELSE Returned(r.st, <<func>>)} })

\* info(package, plugin, func, label)
info(st, package, plugin, func, label) ==
    The({ InfoAfterImport(r, package, plugin, func, label) :
          r \in {_import(st, package, plugin)} })

\* Mutant of InsertByKey: an item goes before the items of equal key.
RECURSIVE InsertBeforeEqual(_, _)
InsertBeforeEqual(s, x) ==
    IF s = << >> THEN <<x>>
    ELSE IF x.key <= Head(s).key THEN <<x>> \o s
    ELSE <<Head(s)>> \o InsertBeforeEqual(Tail(s), x)

\* sorted(): a stable sort of [item, key] pairs, ascending by key.
RECURSIVE InsertByKey(_, _)
InsertByKey(s, x) ==
    IF s = << >> THEN <<x>>
    ELSE IF x.key < Head(s).key THEN <<x>> \o s
    ELSE <<Head(s)>> \o InsertByKey(Tail(s), x)

RECURSIVE SortFrom(_, _, _)
SortFrom(pairs, i, acc) ==
    IF i > Len(pairs) THEN acc
    ELSE The({ SortFrom(pairs, i + 1, acc1) :
               acc1 \in {InsertByKey(acc, pairs[i])} })

sorted(pairs) ==
    The({ [i \in 1..Len(s) |-> s[i].item] : s \in {SortFrom(pairs, 1, << >>)} })

\* Mutant of SortKeys: the key of a plug-in is the least sort_value of its
\* functions.
RECURSIVE SortKeysByLeast(_, _, _, _, _)
SortKeysByLeast(st, package, keys, i, acc) ==
    IF i > Len(keys) THEN Returned(st, acc)
    ELSE The({ IF r.exc # NoError THEN r
               ELSE SortKeysByLeast(r.st, package, keys, i + 1,
                      Append(acc, [item |-> keys[i],
                                   key |-> LET plugin_info ==
                                                 DictGet(r.st.plugins[package], keys[i])
                                               all == {plugin_info[j].v.sort_value :
                                                         j \in 1..Len(plugin_info)}
                                           IN  CHOOSE x \in all : \A y \in all : x <= y])) :
               r \in {info(st, package, keys[i], None, None)} })

\* The key function of names(), applied to the keys in order:
\* info(package, p).sort_value; the first key whose info raises ends it.
RECURSIVE SortKeys(_, _, _, _, _)
SortKeys(st, package, keys, i, acc) ==
    IF i > Len(keys) THEN Returned(st, acc)
    ELSE The({ IF r.exc # NoError THEN r
               ELSE SortKeys(r.st, package, keys, i + 1,
                             Append(acc, [item |-> keys[i],
                                          key |-> r.val.sort_value])) :
               r \in {info(st, package, keys[i], None, None)} })

\* names(package) once _import_all has returned r.
NamesAfterImport(r, package) ==
    IF r.exc # NoError THEN Raised(r.st, r.exc)
    ELSE IF package \notin DOMAIN r.st.plugins THEN Raised(r.st, KeyError)
    ELSE The({ IF k.exc # NoError THEN k ELSE Returned(k.st, sorted(k.val)) :
               k \in {SortKeys(r.st, package, DictKeys(r.st.plugins[package]),
                               1, << >>)} })

\* names(package)
names(st, package) ==
    The({ NamesAfterImport(r, package) : r \in {_import_all(st, package)} })

\* exists(package, plugin) once _import has returned r.
ExistsAfterImport(r, package, plugin) ==
    IF r.exc.type \in {"UnknownPluginError", "UnknownPackageError"}
    THEN Returned(r.st, FALSE)
    ELSE IF r.exc # NoError THEN Raised(r.st, r.exc)
    ELSE Returned(r.st, InPlugins(r.st.plugins, package, plugin))

\* exists(package, plugin)
exists(st, package, plugin) ==
    IF InPlugins(st.plugins, package, plugin) THEN Returned(st, TRUE)
    ELSE The({ ExistsAfterImport(r, package, plugin) :
               r \in {_import(st, package, plugin)} })

\* Mutant of get: the func argument is dropped.
GetDefault(st, package, plugin, func, label) ==
    The({ IF r.exc # NoError THEN r ELSE Returned(r.st, r.val.func) :
          r \in {info(st, package, plugin, None, label)} })

\* get(package, plugin, func, label)
get(st, package, plugin, func, label) ==
    The({ IF r.exc # NoError THEN r ELSE Returned(r.st, r.val.func) :
          r \in {info(st, package, plugin, func, label)} })

\* plugin_func(*args, **kwargs) once get has returned r: what the function
\* returns is returned, what it raises is raised.
CallAfterGet(r, args) ==
    IF r.exc # NoError THEN r
    ELSE The({ IF o.exc # NoError THEN Raised(r.st, o.exc)
               ELSE Returned(r.st, [called |-> r.val, result |-> o.val]) :
               o \in {Invoke(r.val, args)} })

\* call(package, plugin, func, label, *args): the callable invoked and its
\* result.
call(st, package, plugin, func, label, args) ==
    The({ CallAfterGet(r, args) : r \in {get(st, package, plugin, func, label)} })

-----------------------------------------------------------------------------
(* The factories: functools.partial(function, package) *)

\* functools.partial(func, *bound): the function and the arguments bound.
partial(func, bound) == [func |-> func, args |-> bound]

\* The i-th positional argument, None (the default of func and label) when
\* it is not given.
Arg(a, i) == IF i <= Len(a) THEN a[i] ELSE None

\* func(*a) for a function of the module.
Apply(st, func, a) ==
    CASE func = "names"  -> names(st, a[1])
      [] func = "funcs"  -> funcs(st, a[1], a[2], Arg(a, 3))
      [] func = "labels" -> labels(st, a[1], a[2])
      [] func = "info"   -> info(st, a[1], a[2], Arg(a, 3), Arg(a, 4))
      [] func = "exists" -> exists(st, a[1], a[2])
      [] func = "get"    -> get(st, a[1], a[2], Arg(a, 3), Arg(a, 4))
      [] func = "call"   -> call(st, a[1], a[2], Arg(a, 3), Arg(a, 4),
                                 SubSeq(a, 5, Len(a)))

\* Mutant of CallPartial: the arguments bound are taken to be the top-level
\* package alone.
CallPartialTopLevel(st, p, args) ==
    Apply(st, p.func, <<SubSeq(p.args[1], 1, 1)>> \o args)

\* partial.__call__(*args): func(*bound, *args)
CallPartial(st, p, args) == Apply(st, p.func, p.args \o args)

names_factory(package) == partial("names", <<package>>)

funcs_factory(package) == partial("funcs", <<package>>)

labels_factory(package) == partial("labels", <<package>>)

info_factory(package) == partial("info", <<package>>)

exists_factory(package) == partial("exists", <<package>>)

get_factory(package) == partial("get", <<package>>)

call_factory(package) == partial("call", <<package>>)

-----------------------------------------------------------------------------
(* The calls the application makes *)

\* Packages asked for: the existing ones, a missing top-level package, a
\* missing package inside a missing package and one inside an existing one.
PackageArgs ==
    {Pkg, Bad, Lab, Empty, <<"nope">>, <<"nope", "sub">>, <<"pkg", "nosub">>}

PluginArgs(package) ==
    CASE package = Pkg -> {"plugin_parts", "plugin_labels", "no_plugins",
                           "plugin_with_import_error", "non_existent"}
      [] package = Bad -> {"broken"}
      [] package = Lab -> {"only_label"}
      [] package = Empty -> {}
      [] OTHER -> {"plugin_parts"}

LabelArgs(package, plugin) ==
    CASE package = Pkg /\ plugin = "plugin_labels" ->
           {None, "label", "another_label", "wrong_label"}
      [] package = Pkg /\ plugin = "plugin_parts" -> {None, "label"}
      [] package = Lab /\ plugin = "only_label" -> {None, "label"}
      [] OTHER -> {None}

FuncArgs(package, plugin) ==
    CASE package = Pkg /\ plugin = "plugin_labels" ->
           {None, "plugin_one", "plugin_first_label"}
      [] package = Pkg /\ plugin = "plugin_parts" ->
           {None, "plugin_default", "non_existent"}
      [] OTHER -> {None}

\* get and call are asked for fewer combinations than info.
CallArgs ==
    { <<Pkg, "plugin_parts", None, None>>,
      <<Pkg, "plugin_parts", "plugin_default", None>>,
      <<Pkg, "plugin_parts", "plugin_next", "label">>,
      <<Pkg, "plugin_labels", None, "label">>,
      <<Pkg, "plugin_parts", "plugin_final", None>>,
      <<Pkg, "no_plugins", None, None>>,
      <<Pkg, "non_existent", None, None>>,
      <<Bad, "late", "late", None>> }

\* The positional arguments given to call after func and label.
Arguments == {<< >>, <<"x">>}

\* The views the application makes and the arguments it calls each with.
Views ==
    { names_factory(Pkg), funcs_factory(Pkg), labels_factory(Pkg),
      info_factory(Pkg), exists_factory(<<"nope", "sub">>), get_factory(Pkg),
      call_factory(Pkg) }

ViewArgs(func) ==
    CASE func = "names"  -> {<< >>}
      [] func = "funcs"  -> {<<"plugin_labels", "label">>}
      [] func = "labels" -> {<<"plugin_labels">>}
      [] func = "info"   -> {<<"plugin_parts">>}
      [] func = "exists" -> {<<"plugin_parts">>}
      [] func = "get"    -> {<<"plugin_parts", "plugin_next">>}
      [] func = "call"   -> {<<"plugin_parts", None, None, "x">>}

\* The register calls made by code that the Loader does not run: a plug-in
\* file's function decorated again with other arguments, and a function of a
\* top-level module.
DirectRegs ==
    { Reg(Func(<<"pkg", "plugin_parts">>, "plugin_default", <<"Again">>, "default2"),
          5, None),
      Reg(Func(<<"pkg", "plugin_parts">>, "plugin_next", <<"Relabeled">>, "next2"),
          DefaultSortValue, "label"),
      Reg(Func(<<"main">>, "helper", << >>, "helper"), DefaultSortValue, None) }

\* The interpreter state at the start of a call.
St ==
    [plugins |-> store, modules |-> modules, log |-> regLog, loads |-> << >>,
     execs |-> << >>]

\* What a call leaves behind, also when it raises.
Commit(r) ==
    /\ store' = r.st.plugins
    /\ modules' = r.st.modules
    /\ regLog' = r.st.log
    /\ UNCHANGED <<loading, appeared>>

Outcome(op, package, plugin, func, label, r) ==
    [op |-> op, package |-> package, plugin |-> plugin, func |-> func,
     label |-> label, args |-> << >>, exc |-> r.exc, val |-> r.val,
     loads |-> r.st.loads, execs |-> r.st.execs]

\* No import is in progress in another thread.
NoLoad == [m |-> << >>, next |-> 0]

\* No call is in progress and no result is pending.
Idle == Outcome("none", << >>, None, None, None, Returned(St, None))

Init ==
    /\ store = << >>
    /\ modules = {}
    /\ regLog = << >>
    /\ nreg = 0
    /\ ret = Idle
    /\ loading = NoLoad
    /\ appeared = {}

Register(reg) ==
    /\ ret.op = "none"
    /\ nreg < MaxRegister
    /\ nreg' = nreg + 1
    /\ \E st \in {decorator_register(St, reg.func, reg.sort_value, reg.label)} :
           /\ Commit(Returned(st, reg.func))
           /\ ret' = Outcome("register", rpartition(reg.func.module).head,
                             rpartition(reg.func.module).tail, reg.func.name,
                             reg.label, Returned(st, reg.func))

Names(package) ==
    /\ ret.op = "none"
    /\ \E r \in {names(St, package)} :
          /\ Commit(r)
          /\ ret' = Outcome("names", package, None, None, None, r)
    /\ UNCHANGED nreg

Funcs(package, plugin, label) ==
    /\ ret.op = "none"
    /\ \E r \in {funcs(St, package, plugin, label)} :
          /\ Commit(r)
          /\ ret' = Outcome("funcs", package, plugin, None, label, r)
    /\ UNCHANGED nreg

Labels(package, plugin) ==
    /\ ret.op = "none"
    /\ \E r \in {labels(St, package, plugin)} :
          /\ Commit(r)
          /\ ret' = Outcome("labels", package, plugin, None, None, r)
    /\ UNCHANGED nreg

Info(package, plugin, func, label) ==
    /\ ret.op = "none"
    /\ \E r \in {info(St, package, plugin, func, label)} :
          /\ Commit(r)
          /\ ret' = Outcome("info", package, plugin, func, label, r)
    /\ UNCHANGED nreg

Exists(package, plugin) ==
    /\ ret.op = "none"
    /\ \E r \in {exists(St, package, plugin)} :
          /\ Commit(r)
          /\ ret' = Outcome("exists", package, plugin, None, None, r)
    /\ UNCHANGED nreg

Get(package, plugin, func, label) ==
    /\ ret.op = "none"
    /\ \E r \in {get(St, package, plugin, func, label)} :
          /\ Commit(r)
          /\ ret' = Outcome("get", package, plugin, func, label, r)
    /\ UNCHANGED nreg

Call(package, plugin, func, label, args) ==
    /\ ret.op = "none"
    /\ \E r \in {call(St, package, plugin, func, label, args)} :
          /\ Commit(r)
          /\ ret' = [Outcome("call", package, plugin, func, label, r)
                       EXCEPT !.args = args]
    /\ UNCHANGED nreg

\* A view made by a factory is called.
View(p, args) ==
    /\ ret.op = "none"
    /\ \E r \in {CallPartial(St, p, args)} :
          /\ Commit(r)
          /\ ret' = [Outcome("view", p.args[1], Arg(args, 1), Arg(args, 2),
                              Arg(args, 3), r)
                       EXCEPT !.args = <<p.func>> \o args]
    /\ UNCHANGED nreg

\* The caller has taken the outcome of its call and goes on.
Resume ==
    /\ ret.op # "none"
    /\ ret' = Idle
    /\ UNCHANGED <<store, modules, regLog, nreg, loading, appeared>>

Next ==
    \/ Resume
    \/ \E reg \in DirectRegs : Register(reg)
    \/ \E package \in PackageArgs : Names(package)
    \/ \E package \in PackageArgs : \E plugin \in PluginArgs(package) :
          \/ Labels(package, plugin)
          \/ Exists(package, plugin)
          \/ \E label \in LabelArgs(package, plugin) :
                \/ Funcs(package, plugin, label)
                \/ \E func \in FuncArgs(package, plugin) :
                      Info(package, plugin, func, label)
    \/ \E a \in CallArgs :
          \/ Get(a[1], a[2], a[3], a[4])
          \/ \E args \in Arguments : Call(a[1], a[2], a[3], a[4], args)
    \/ \E p \in Views : \E args \in ViewArgs(p.func) : View(p, args)

Spec == Init /\ [][Next]_vars

-----------------------------------------------------------------------------
(* Two threads: one is inside _import, running a plug-in file statement by
   statement, while the other makes lookups.  The module keeps no lock of
   its own; the interpreter's import lock makes a thread that imports a
   module wait while another thread is importing that module. *)

\* A thread calls _import for a plug-in that has no entry: the fast path is
\* not taken and the Loader starts to run the file.
BeginImport(package, plugin) ==
    /\ loading = NoLoad
    /\ ~InPlugins(store, package, plugin)
    /\ Append(package, plugin) \notin modules
    /\ FirstMissing(Append(package, plugin)) = << >>
    /\ loading' = [m |-> Append(package, plugin), next |-> 1]
    /\ UNCHANGED <<store, modules, regLog, ret, nreg, appeared>>

\* The file being loaded runs its next register statement.
RegisterStep ==
    /\ loading # NoLoad
    /\ loading.next <= Len(Script(loading.m).regs)
    /\ \E st \in {decorator_register(St, Script(loading.m).regs[loading.next].func,
                                      Script(loading.m).regs[loading.next].sort_value,
                                      Script(loading.m).regs[loading.next].label)} :
          /\ store' = st.plugins
          /\ regLog' = st.log
    /\ loading' = [loading EXCEPT !.next = @ + 1]
    /\ UNCHANGED <<modules, ret, nreg, appeared>>

\* The file being loaded reaches its end.
EndImport ==
    /\ loading # NoLoad
    /\ loading.next > Len(Script(loading.m).regs)
    /\ \E r \in {Executed(St, loading.m)} : modules' = r.st.modules
    /\ loading' = NoLoad
    /\ UNCHANGED <<store, regLog, ret, nreg, appeared>>

\* The call does not have to wait for the import lock: it does not invoke
\* the Loader for the module that is being loaded.
NotBlocked(r) ==
    \A i \in 1..Len(r.st.loads) : r.st.loads[i] # loading.m

\* The plug-ins the two threads work on.
ConcPlugins == {"plugin_parts", "plugin_labels"}

NextConc ==
    \/ Resume
    \/ RegisterStep
    \/ EndImport
    \/ NotBlocked(names(St, Pkg)) /\ Names(Pkg)
    \/ \E plugin \in ConcPlugins :
          \/ BeginImport(Pkg, plugin)
          \/ NotBlocked(labels(St, Pkg, plugin)) /\ Labels(Pkg, plugin)
          \/ NotBlocked(exists(St, Pkg, plugin)) /\ Exists(Pkg, plugin)
          \/ \E label \in LabelArgs(Pkg, plugin) :
                \/ NotBlocked(funcs(St, Pkg, plugin, label))
                   /\ Funcs(Pkg, plugin, label)
                \/ NotBlocked(info(St, Pkg, plugin, None, label))
                   /\ Info(Pkg, plugin, None, label)

SpecConc == Init /\ [][NextConc]_vars

-----------------------------------------------------------------------------
(* Two threads in _import for the same plug-in: the second one's call is
   taken in two steps, the absence check and the call of the Loader, so that
   the first thread's steps can come between them. *)

\* The second thread's `if ... return` of _import: the plug-in has no entry
\* and the thread goes on to the Loader.
ImportCheck(package, plugin) ==
    /\ ret.op = "none"
    /\ ~InPlugins(store, package, plugin)
    /\ ret' = Outcome("in _import", package, plugin, None, None, Returned(St, None))
    /\ UNCHANGED <<store, modules, regLog, nreg, loading, appeared>>

\* The second thread's import_module and except clause.  It waits for the
\* import lock while the first thread is loading the module; then it finds
\* the module in sys.modules, or runs the file itself.
ImportLoad ==
    /\ ret.op = "in _import"
    /\ loading.m # Append(ret.package, ret.plugin)
    /\ \E r \in {Classify(import_module(St, Append(ret.package, ret.plugin)),
                           ret.package, ret.plugin)} :
          /\ Commit(r)
          /\ ret' = Outcome("_import", ret.package, ret.plugin, None, None,
                            Raised(r.st, r.exc))
    /\ UNCHANGED nreg

\* The plug-ins both threads import: two that load, one whose file raises
\* after its registration.
RacePlugins ==
    { <<Pkg, "plugin_parts">>, <<Pkg, "plugin_labels">>, <<Bad, "broken">> }

NextRace ==
    \/ ret.op # "in _import" /\ Resume
    \/ RegisterStep
    \/ EndImport
    \/ ImportLoad
    \/ \E a \in RacePlugins :
          \/ BeginImport(a[1], a[2])
          \/ ImportCheck(a[1], a[2])

SpecRace == Init /\ [][NextRace]_vars

-----------------------------------------------------------------------------
(* A package whose directory gets new plug-in files while the program runs *)

\* A new plug-in file is created in the directory of its package.
Appear(f) ==
    /\ f \notin appeared
    /\ appeared' = appeared \cup {f}
    /\ UNCHANGED <<store, modules, regLog, ret, nreg, loading>>

NextGrow ==
    \/ Resume
    \/ \E f \in NewFiles : Appear(f)
    \/ \E package \in {Pkg, Empty} : Names(package)
    \/ \E plugin \in {"plugin_parts", "plugin_added", "labeled_added", "_hidden"} :
          \/ Exists(Pkg, plugin)
          \/ Funcs(Pkg, plugin, None)

SpecGrow == Init /\ [][NextGrow]_vars

-----------------------------------------------------------------------------
(* A package inside a package, whose plug-in files fail in an import
   statement of their own after they have registered a function *)

\* The plug-ins looked up: the two failing files, and a file that registers
\* nothing, a missing file, a plug-in file and a missing package.
FailArgs ==
    { <<Mis, "half">>, <<Mis, "sub">>, <<Pkg, "no_plugins">>,
      <<Pkg, "non_existent">>, <<Pkg, "plugin_parts">>,
      << <<"nope">>, "plugin_parts" >> }

NextFail ==
    \/ Resume
    \/ \E reg \in DirectRegs : Register(reg)
    \/ \E a \in FailArgs :
          \/ Funcs(a[1], a[2], None)
          \/ Labels(a[1], a[2])
          \/ Exists(a[1], a[2])
          \/ Info(a[1], a[2], None, None)
          \/ Get(a[1], a[2], None, None)
          \/ Call(a[1], a[2], None, None, << >>)

SpecFail == Init /\ [][NextFail]_vars

-----------------------------------------------------------------------------
(* Reading the history of register calls *)

\* The register calls made so far for the modules of a package, in order.
LogOf(package) == IF package \in DOMAIN regLog THEN regLog[package] ELSE << >>

\* The func_names registered under a plug-in, each once, in the order in
\* which each was registered first.
RECURSIVE FirstRegistered(_, _, _, _)
FirstRegistered(log, plugin, i, acc) ==
    IF i > Len(log) THEN acc
    ELSE IF log[i].plugin = plugin
            /\ \A j \in 1..Len(acc) : acc[j] # log[i].func_name
    THEN FirstRegistered(log, plugin, i + 1, Append(acc, log[i].func_name))
    ELSE FirstRegistered(log, plugin, i + 1, acc)

RegisteredFuncs(package, plugin) == FirstRegistered(LogOf(package), plugin, 1, << >>)

\* The most recent register call for (package, plugin, func_name).
LastReg(package, plugin, func_name) ==
    LET log == LogOf(package)
        at == {i \in 1..Len(log) :
                 log[i].plugin = plugin /\ log[i].func_name = func_name}
    IN  log[CHOOSE i \in at : \A j \in at : j <= i]

IsRegistered(package, plugin, func_name) ==
    \E i \in 1..Len(LogOf(package)) :
       /\ LogOf(package)[i].plugin = plugin
       /\ LogOf(package)[i].func_name = func_name

\* The label partition: the registered func_names whose latest registration
\* carries the label, in first-registration order.
Partition(package, plugin, label) ==
    LET has(f) == LastReg(package, plugin, f).label = label
    IN  SelectSeq(RegisteredFuncs(package, plugin), has)

HasRegistered(package, plugin) == RegisteredFuncs(package, plugin) # << >>

\* The call found the plug-in unregistered, invoked the Loader, and the load
\* raised: what the plug-in registered before that does not make the call
\* one on a registered plug-in.
LoadFailed == ret.loads # << >> /\ ret.exc # NoError

-----------------------------------------------------------------------------
(* Claims *)

\* C1: for a plug-in with registered functions and any label argument
\* (None included), funcs returns exactly the func_names whose record label
\* equals the argument, each once, in the order in which they were
\* registered; two unlabeled functions of a plug-in are both returned, in
\* registration order.
C1_FuncsInRegistrationOrder ==
    (ret.op = "funcs" /\ HasRegistered(ret.package, ret.plugin) /\ ~LoadFailed)
    => /\ ret.exc = NoError
       /\ ret.val = Partition(ret.package, ret.plugin, ret.label)
       /\ \A i, j \in 1..Len(ret.val) : i # j => ret.val[i] # ret.val[j]

\* C1 witness: funcs has returned two unlabeled functions of plugin_parts,
\* after plugin_default was registered a second time.
C1_Witness ==
    /\ ret.op = "funcs" /\ ret.label = None /\ ret.exc = NoError
    /\ ret.package = Pkg /\ ret.plugin = "plugin_parts"
    /\ ret.val = <<"plugin_default", "plugin_next", "plugin_final">>
    /\ LastReg(Pkg, "plugin_parts", "plugin_default").sort_value = 5

\* C2: info with func omitted returns the record of the first-registered
\* function of the label partition, the record info returns for
\* func = funcs(package, plugin, label)[0]; get returns its callable and
\* call invokes it.
C2_DefaultIsFirstRegistered ==
    (/\ ret.op \in {"info", "get", "call"} /\ ret.func = None
     /\ Partition(ret.package, ret.plugin, ret.label) # << >> /\ ~LoadFailed)
    => LET first == Head(Partition(ret.package, ret.plugin, ret.label))
           reg == LastReg(ret.package, ret.plugin, first)
           listed == funcs(St, ret.package, ret.plugin, ret.label)
           explicit == info(St, ret.package, ret.plugin, Head(listed.val), ret.label)
       IN  /\ ret.exc = NoError
           /\ listed.exc = NoError /\ Head(listed.val) = first
           /\ explicit.exc = NoError
           /\ explicit.val.func = reg.func
           /\ explicit.val.sort_value = reg.sort_value
           /\ ret.op = "info" => ret.val = explicit.val
           /\ ret.op = "get" => ret.val = reg.func
           /\ ret.op = "call" => ret.val.called = reg.func
                                 /\ ret.val.result = Invoke(reg.func, ret.args).val

\* C2 witness: call with func omitted and a label has invoked the first
\* function labeled "label" of plugin_labels, which is not the first
\* function of the plug-in.
C2_Witness ==
    /\ ret.op = "call" /\ ret.func = None /\ ret.label = "label"
    /\ ret.exc = NoError /\ ret.val.called.name = "plugin_first_label"
    /\ RegisteredFuncs(ret.package, ret.plugin)[1] = "plugin_one"

\* C3: for a plug-in with registered functions, info with a func that is
\* not registered, or whose record carries another label than the one asked
\* for, raises UnknownPluginFunctionError; so does info with func omitted
\* when the label partition is empty; a record is returned only when its
\* label is the label asked for.
C3_InfoMissingFunction ==
    (ret.op = "info" /\ HasRegistered(ret.package, ret.plugin) /\ ~LoadFailed)
    => /\ (/\ ret.func # None
           /\ \/ ~IsRegistered(ret.package, ret.plugin, ret.func)
              \/ LastReg(ret.package, ret.plugin, ret.func).label # ret.label)
          => ret.exc.type = "UnknownPluginFunctionError"
       /\ (ret.func = None /\ Partition(ret.package, ret.plugin, ret.label) = << >>)
          => ret.exc.type = "UnknownPluginFunctionError"
       /\ ret.exc = NoError => ret.val.label = ret.label

\* C3 witness: info was asked for an unlabeled function with a label and
\* raised UnknownPluginFunctionError.
C3_Witness ==
    /\ ret.op = "info" /\ ret.func = "plugin_one" /\ ret.label = "label"
    /\ IsRegistered(ret.package, ret.plugin, ret.func)
    /\ LastReg(ret.package, ret.plugin, ret.func).label = None
    /\ ret.exc.type = "UnknownPluginFunctionError"

\* A file that can be loaded and registers nothing.
RegistersNothing(m) ==
    ModuleExists(m) /\ Script(m).regs = << >> /\ Script(m).raises = NoError

\* C4: info, get and call raise UnknownPluginError when the member does not
\* exist in an existing package and when it loads and registers no function,
\* whether or not the package has an entry in the registry.
C4_UnknownPlugin ==
    (/\ ret.op \in {"info", "get", "call"} /\ ret.package \in Packages
     /\ ~HasRegistered(ret.package, ret.plugin)
     /\ \/ ~ModuleExists(Append(ret.package, ret.plugin))
        \/ RegistersNothing(Append(ret.package, ret.plugin)))
    => ret.exc.type = "UnknownPluginError"

\* C4 witness: call on a file that registers nothing raised
\* UnknownPluginError while the package has no entry in the registry.
C4_Witness ==
    /\ ret.op = "call" /\ ret.package = Pkg /\ ret.plugin = "no_plugins"
    /\ <<"pkg", "no_plugins">> \in modules
    /\ Pkg \notin DOMAIN store
    /\ ret.exc.type = "UnknownPluginError"

\* C5: exists returns True exactly when a function is registered under
\* (package, plugin) as the call returns; it returns False for a file that
\* registers nothing, False for a member that does not exist, and False,
\* without raising, for any plug-in of a package that does not exist.
C5_ExistsIffRegistered ==
    ret.op = "exists"
    => /\ ret.exc = NoError
          => (ret.val <=> /\ HasRegistered(ret.package, ret.plugin)
                          /\ InPlugins(store, ret.package, ret.plugin))
       /\ (/\ ret.package \in Packages /\ ~HasRegistered(ret.package, ret.plugin)
           /\ \/ ~ModuleExists(Append(ret.package, ret.plugin))
              \/ RegistersNothing(Append(ret.package, ret.plugin)))
          => (ret.exc = NoError /\ ret.val = FALSE)
       /\ ret.package \notin Packages
          => (ret.exc = NoError /\ ret.val = FALSE)

\* The plug-in names of a package in the order in which each was registered
\* first.
RECURSIVE FirstPlugins(_, _, _)
FirstPlugins(log, i, acc) ==
    IF i > Len(log) THEN acc
    ELSE IF \A j \in 1..Len(acc) : acc[j] # log[i].plugin
    THEN FirstPlugins(log, i + 1, Append(acc, log[i].plugin))
    ELSE FirstPlugins(log, i + 1, acc)

RegisteredPlugins(package) == FirstPlugins(LogOf(package), 1, << >>)

IndexOf(seq, x) == CHOOSE i \in 1..Len(seq) : seq[i] = x

\* The sort value of a plug-in: that of its first-registered unlabeled
\* function, as registered last.
SortValueOf(package, plugin) ==
    LastReg(package, plugin, Head(Partition(package, plugin, None))).sort_value

\* C6: names returns the plug-in names ascending by sort value, and plug-ins
\* of equal sort value in the order in which their entries were inserted
\* into the registry.
C6_NamesSortedStable ==
    (ret.op = "names" /\ ret.exc = NoError)
    => \A i, j \in 1..Len(ret.val) :
          i < j
          => LET a == SortValueOf(ret.package, ret.val[i])
                 b == SortValueOf(ret.package, ret.val[j])
                 order == RegisteredPlugins(ret.package)
             IN  /\ a <= b
                 /\ a = b => IndexOf(order, ret.val[i]) < IndexOf(order, ret.val[j])

\* C6 witness: names has returned the plug-ins of sort values -10, 0, 0, 10
\* with plugin_parts, inserted before plugin_labels, ahead of it, and
\* plugin_first, inserted last, first.
C6_Witness ==
    /\ ret.op = "names" /\ ret.exc = NoError
    /\ ret.val = <<"plugin_first", "plugin_parts", "plugin_labels", "plugin_last">>
    /\ RegisteredPlugins(Pkg) =
          <<"plugin_parts", "plugin_labels", "plugin_last", "plugin_first">>
    /\ SortValueOf(Pkg, "plugin_first") = -10
    /\ SortValueOf(Pkg, "plugin_labels") = SortValueOf(Pkg, "plugin_parts")

\* The exception is the one that the top-level code of a file of the
\* package raises.
MemberFailure(package, exc) ==
    /\ exc # NoError
    /\ \E i \in 1..Len(PluginFiles(Resources(package))) :
          Script(Append(package, PluginFiles(Resources(package))[i])).raises = exc

\* C7: for a package the Loader can enumerate, names completes without error
\* and returns the plug-in keys of the package's entry, each once, also when
\* all functions of a plug-in carry a label.  (Stated for the calls in which
\* no file's own failure ends the discovery: those are C8's.)
C7_NamesReturnsAllPlugins ==
    (/\ ret.op = "names" /\ ret.package \in Packages
     /\ ~MemberFailure(ret.package, ret.exc))
    => /\ ret.exc = NoError
       /\ ret.package \in DOMAIN store
       /\ {ret.val[i] : i \in 1..Len(ret.val)}
             = {store[ret.package][i].k : i \in 1..Len(store[ret.package])}
       /\ Len(ret.val) = Len(store[ret.package])

\* C8: import_all, and so names, never raises because of the failure of one
\* file's load: the failure is discarded and every other eligible file of
\* the package is imported.
C8_MemberFailuresDiscarded ==
    (ret.op = "names" /\ ret.package \in Packages)
    => /\ ~MemberFailure(ret.package, ret.exc)
       /\ \A i \in 1..Len(PluginFiles(Resources(ret.package))) :
             LET plugin == PluginFiles(Resources(ret.package))[i]
             IN  Script(Append(ret.package, plugin)).raises = NoError
                 => \/ Append(ret.package, plugin) \in modules
                    \/ InPlugins(store, ret.package, plugin)

\* C9: names called again right after names yields the same outcome, and
\* the second call does not invoke the Loader for a plug-in that has an entry
\* in the registry; _import on a plug-in that has an entry changes nothing
\* and does not invoke the Loader.
C9_NamesIdempotent ==
    ret.op = "names"
    => LET again == names(St, ret.package)
       IN  /\ again.exc = ret.exc
           /\ ret.exc = NoError => again.val = ret.val
           /\ \A i \in 1..Len(again.st.loads) :
                 ~InPlugins(store, ret.package,
                            again.st.loads[i][Len(again.st.loads[i])])
           /\ \A package \in PackageArgs : \A plugin \in PluginArgs(package) :
                 InPlugins(store, package, plugin)
                 => _import(St, package, plugin) = [st |-> St, exc |-> NoError]

\* The labels that occur.
AllLabels == {"label", "another_label", "wrong_label"}

\* C10: labels returns exactly the labels other than None that the records
\* of the plug-in carry; None is never in it, and a label is in it exactly
\* when funcs for that label is not empty.
C10_LabelsAreTheRecordLabels ==
    (ret.op = "labels" /\ HasRegistered(ret.package, ret.plugin) /\ ~LoadFailed)
    => LET fs == RegisteredFuncs(ret.package, ret.plugin)
           carried == {LastReg(ret.package, ret.plugin, fs[i]).label : i \in 1..Len(fs)}
       IN  /\ ret.exc = NoError
           /\ ret.val = {l \in carried : l # None}
           /\ None \notin ret.val
           /\ \A l \in AllLabels :
                 l \in ret.val
                 <=> funcs(St, ret.package, ret.plugin, l).val # << >>

\* C10 witness: labels has returned {"label", "another_label"} for the
\* plug-in with two functions labeled "label", one labeled "another_label"
\* and two unlabeled.
C10_Witness ==
    /\ ret.op = "labels" /\ ret.exc = NoError
    /\ ret.val = {"label", "another_label"}
    /\ Len(Partition(ret.package, ret.plugin, "label")) = 2
    /\ Len(Partition(ret.package, ret.plugin, "another_label")) = 1
    /\ Len(Partition(ret.package, ret.plugin, None)) = 2

\* C11: register returns the function it was given; get with a func and
\* the label of its record returns the callable registered last under
\* (package, plugin, func); call with a func and arguments returns what that
\* function returns for the arguments, or raises what it raises.
C11_CallIsTheRegisteredFunction ==
    /\ ret.op = "register"
       => /\ ret.exc = NoError
          /\ ret.val = LastReg(ret.package, ret.plugin, ret.func).func
          /\ ret.val \in {reg.func : reg \in DirectRegs}
    /\ (/\ ret.op \in {"get", "call"} /\ ret.func # None /\ ~LoadFailed
        /\ IsRegistered(ret.package, ret.plugin, ret.func)
        /\ LastReg(ret.package, ret.plugin, ret.func).label = ret.label)
       => LET f == LastReg(ret.package, ret.plugin, ret.func).func
              direct == Invoke(f, ret.args)
          IN  /\ ret.op = "get" => (ret.exc = NoError /\ ret.val = f)
              /\ ret.op = "call"
                 => /\ ret.exc = direct.exc
                    /\ direct.exc = NoError
                       => (ret.val.called = f /\ ret.val.result = direct.val)

\* C11 witness: call with a func that is not the default one and an argument
\* has returned what that function returns for the argument.
C11_Witness ==
    /\ ret.op = "call" /\ ret.func = "plugin_final" /\ ret.args = <<"x">>
    /\ ret.exc = NoError /\ ret.val.result = <<"final", "x">>
    /\ Head(Partition(ret.package, ret.plugin, None)) = "plugin_default"

C13_LastRegistrationWins ==
    /\ ret.op = "register" => ret.exc = NoError
    /\ \A package \in DOMAIN store :
          /\ DictKeys(store[package]) = RegisteredPlugins(package)
          /\ \A p \in 1..Len(store[package]) :
                LET plugin == store[package][p].k
                    plugin_info == store[package][p].v
                IN  /\ DictKeys(plugin_info) = RegisteredFuncs(package, plugin)
                    /\ \A i, j \in 1..Len(plugin_info) :
                          plugin_info[i].k = plugin_info[j].k => i = j
                    /\ \A i \in 1..Len(plugin_info) :
                          LET reg == LastReg(package, plugin, plugin_info[i].k)
                              found == info(St, package, plugin, plugin_info[i].k,
                                            reg.label)
                          IN  /\ found.exc = NoError
                              /\ found.val = plugin_info[i].v
                              /\ found.val.func = reg.func
                              /\ found.val.sort_value = reg.sort_value
                              /\ found.val.label = reg.label
                              /\ found.val.func_name = plugin_info[i].k

\* C13 witness: plugin_default of plugin_parts, registered by its file, has
\* been registered again with another callable and sort value; the plug-in
\* still has its three functions.
C13_Witness ==
    /\ ret.op = "register" /\ ret.func = "plugin_default"
    /\ Pkg \in DOMAIN store /\ DictHas(store[Pkg], "plugin_parts")
    /\ DictKeys(DictGet(store[Pkg], "plugin_parts"))
          = <<"plugin_default", "plugin_next", "plugin_final">>
    /\ DictGet(DictGet(store[Pkg], "plugin_parts"), "plugin_default").sort_value = 5
    /\ DictGet(DictGet(store[Pkg], "plugin_parts"), "plugin_default").func.result
          = "default2"
    /\ Len(SelectSeq(LogOf(Pkg),
                     LAMBDA e : e.plugin = "plugin_parts"
                                /\ e.func_name = "plugin_default")) = 2

\* C14: when a lookup invokes the Loader for a plug-in, a member that does
\* not exist in an existing package is an UnknownPluginError, a package that
\* does not exist is an UnknownPackageError, and a failure raised by the
\* member's own top-level code comes out unchanged, through funcs, labels,
\* info, get, call and, for the latter, exists.
C14_ImportClassification ==
    (/\ ret.op \in {"funcs", "labels", "info", "get", "call", "exists"}
     /\ ret.loads # << >>)
    => LET m == Append(ret.package, ret.plugin)
       IN  /\ (/\ ret.op # "exists" /\ ret.package \in Packages
               /\ ~ModuleExists(m))
              => ret.exc = UnknownPluginError(ret.package, ret.plugin)
           /\ (ret.op # "exists" /\ ret.package \notin Packages)
              => ret.exc = UnknownPackageError(ret.package)
           /\ (ModuleExists(m) /\ Script(m).raises # NoError)
              => ret.exc = Script(m).raises

\* C15: names for a package that does not exist raises UnknownPackageError
\* for that package, whichever module of its dotted name is the missing one.
C15_NamesUnknownPackage ==
    (ret.op = "names" /\ ret.package \notin Packages)
    => ret.exc = UnknownPackageError(ret.package)

\* C15 witness: names has raised UnknownPackageError for a package whose
\* parent package is the missing module.
C15_Witness ==
    /\ ret.op = "names" /\ ret.package = <<"nope", "sub">>
    /\ FirstMissing(ret.package) = <<"nope">>
    /\ ret.exc.type = "UnknownPackageError"

\* The func_names that a file registers with a label, in order.
FileFuncs(m, label) ==
    LET regs == SelectSeq(Script(m).regs, LAMBDA reg : reg.label = label)
    IN  [i \in 1..Len(regs) |-> regs[i].func.name]

\* C16: with a lookup running while another thread loads a plug-in file, no
\* lookup sees the plug-in in the middle of its registrations: funcs returns
\* all the functions the file registers with the label, never a strict
\* prefix of them, labels returns all the labels of the file, and info finds
\* the first function of a label that the file uses.
C16_NoTornRead ==
    LET m == Append(ret.package, ret.plugin)
    IN  /\ (ret.op = "funcs" /\ ret.exc = NoError)
           => ret.val = FileFuncs(m, ret.label)
        /\ (ret.op = "labels" /\ ret.exc = NoError)
           => ret.val = {Script(m).regs[i].label : i \in 1..Len(Script(m).regs)}
                           \ {None}
        /\ (ret.op = "info" /\ FileFuncs(m, ret.label) # << >>)
           => (ret.exc = NoError /\ ret.val.func_name = Head(FileFuncs(m, ret.label)))

\* The call invoked the Loader for its plug-in and the import failed: the
\* module is missing, or the file's code raised.
ImportFailed ==
    /\ ret.op \in {"funcs", "labels", "info", "exists", "get", "call"}
    /\ ret.loads # << >>
    /\ \/ FirstMissing(Append(ret.package, ret.plugin)) # << >>
       \/ Script(Append(ret.package, ret.plugin)).raises # NoError

\* C17: when the import of a plug-in fails, also when the file's code raises
\* part-way through, nothing of it stays in the registry: the plug-in has no
\* entry, and a later funcs, info or exists for it invokes the Loader again
\* instead of taking the fast path.
C17_FailedImportLeavesNothing ==
    ImportFailed
    => LET m == Append(ret.package, ret.plugin)
           called(r) == \E i \in 1..Len(r.st.loads) : r.st.loads[i] = m
       IN  /\ ~InPlugins(store, ret.package, ret.plugin)
           /\ called(funcs(St, ret.package, ret.plugin, None))
           /\ called(info(St, ret.package, ret.plugin, None, None))
           /\ called(exists(St, ret.package, ret.plugin))

\* C18: when names is called again, the Loader runs the code of no file
\* that it ran during the call before, and it is not invoked for a file
\* that was loaded and registered nothing.
C18_EachFileRunsOnce ==
    ret.op = "names"
    => LET again == names(St, ret.package)
       IN  /\ \A i \in 1..Len(again.st.execs) : \A j \in 1..Len(ret.execs) :
                 again.st.execs[i] # ret.execs[j]
           /\ \A i \in 1..Len(again.st.loads) :
                 ~(/\ RegistersNothing(again.st.loads[i])
                   /\ again.st.loads[i] \in modules)

\* C19: after names on a package that exists, the package has an entry in
\* the registry whatever the outcome, also when names raised because of one
\* of its files; for a package without plug-in files the entry is empty and
\* names returns the empty list.
C19_EntryForExistingPackage ==
    (ret.op = "names" /\ ret.package \in Packages)
    => /\ ret.package \in DOMAIN store
       /\ (PluginFiles(Listing(ret.package)) = << >> /\ LogOf(ret.package) = << >>)
          => (/\ store[ret.package] = << >>
              /\ ret.exc = NoError
              /\ ret.val = << >>)

\* C19 witness: names on the package without plug-in files has returned the
\* empty list and left an empty entry for the package.
C19_Witness ==
    /\ ret.op = "names" /\ ret.package = Empty
    /\ ret.exc = NoError /\ ret.val = << >>
    /\ Empty \in DOMAIN store /\ store[Empty] = << >>
    /\ ret.loads = << >>

\* C20: when a plug-in file that registers a function is created in a
\* package after names has returned for it, the next names call invokes the
\* Loader for the file and returns its name, together with every name the
\* call before returned.
C20_NewFilePickedUp ==
    (ret.op = "names" /\ ret.exc = NoError)
    => LET again == names(St, ret.package)
           before == {ret.val[i] : i \in 1..Len(ret.val)}
       IN  \A f \in appeared :
              (/\ f.package = ret.package /\ f.name \notin before
               /\ Script(Append(f.package, f.name)).regs # << >>)
              => /\ again.exc = NoError
                 /\ \E i \in 1..Len(again.st.loads) :
                       again.st.loads[i] = Append(f.package, f.name)
                 /\ f.name \in {again.val[i] : i \in 1..Len(again.val)}
                 /\ before \subseteq {again.val[i] : i \in 1..Len(again.val)}

\* C21: names, through _import_all, invokes the Loader only for modules
\* package.name where name.py is listed in the package's directory and name
\* does not start with "_"; it never invokes the Loader for a listed member
\* that starts with "_" or does not end in ".py", and no such member is in
\* the list returned unless it had an entry before the call.
C21_OnlyPluginSourcesLoaded ==
    [][(ret.op = "none" /\ ret'.op = "names")
       => LET package == ret'.package
              listing == Listing(package)
              loaded == {ret'.loads[i] : i \in 1..Len(ret'.loads)}
              eligible(r) == r.ext = ".py" /\ ~StartsWithUnderscore(r.name)
          IN  /\ \A m \in loaded :
                    \E j \in 1..Len(listing) :
                       eligible(listing[j]) /\ m = Append(package, listing[j].name)
              /\ \A j \in 1..Len(listing) :
                    ~eligible(listing[j])
                    => /\ Append(package, listing[j].name) \notin loaded
                       /\ (/\ ret'.exc = NoError
                           /\ \E i \in 1..Len(ret'.val) : ret'.val[i] = listing[j].name)
                          => InPlugins(store, package, listing[j].name)]_vars

\* C21 witness: names has loaded the plug-in files of the package, a file
\* created later among them, and neither loaded nor returned the private
\* file nor the member that is no Python source, both listed.
C21_Witness ==
    /\ ret.op = "names" /\ ret.package = Pkg /\ ret.exc = NoError
    /\ \E i \in 1..Len(ret.loads) : ret.loads[i] = <<"pkg", "plugin_added">>
    /\ \E j \in 1..Len(Listing(Pkg)) : Listing(Pkg)[j] = Resource("_hidden", ".py")
    /\ \E j \in 1..Len(Listing(Pkg)) : Listing(Pkg)[j] = Resource("notes", ".txt")
    /\ <<"pkg", "_hidden">> \notin modules
    /\ ~InPlugins(store, Pkg, "_hidden")
    /\ \A i \in 1..Len(ret.val) : ret.val[i] \notin {"_hidden", "notes", "__init__"}

\* C22: funcs, labels, info, get and exists for a plug-in that has an entry
\* in the registry leave the registry as it is and do not invoke the Loader;
\* a lookup that ends in UnknownPluginError or UnknownPackageError, and an
\* exists that returns False, leaves the registry as it was before the call.
C22_LookupsLeaveTheRegistry ==
    [][(/\ ret.op = "none"
        /\ ret'.op \in {"funcs", "labels", "info", "get", "call", "exists"})
       => /\ (ret'.op # "call" /\ InPlugins(store, ret'.package, ret'.plugin))
             => (store' = store /\ ret'.loads = << >>)
          /\ (\/ ret'.exc.type \in {"UnknownPluginError", "UnknownPackageError"}
              \/ (ret'.op = "exists" /\ ret'.exc = NoError /\ ret'.val = FALSE))
             => store' = store]_vars

\* The keys of the three levels of a registry.
PluginKeys(plugins) ==
    UNION { { <<package, plugins[package][i].k>> : i \in 1..Len(plugins[package]) } :
            package \in DOMAIN plugins }

FuncKeys(plugins) ==
    UNION { UNION { { <<package, plugins[package][i].k, plugins[package][i].v[j].k>> :
                      j \in 1..Len(plugins[package][i].v) } :
                    i \in 1..Len(plugins[package]) } :
            package \in DOMAIN plugins }

\* C23: in every step, whichever operation makes it and however it ends,
\* the package keys, the (package, plugin) keys and the (package, plugin,
\* func_name) keys of the registry before the step are keys after it: no
\* operation removes a key.
C23_KeysOnlyGrow ==
    [][\/ store' = store
       \/ /\ DOMAIN store \subseteq DOMAIN store'
          /\ PluginKeys(store) \subseteq PluginKeys(store')
          /\ FuncKeys(store) \subseteq FuncKeys(store')]_vars

\* C23 witness: after a lookup, a registration of a present name and a
\* names call that raised, the registry holds the keys of all of them.
C23_Witness ==
    /\ ret.op = "names" /\ ret.package = Bad /\ ret.exc.type = "ZeroDivisionError"
    /\ nreg = 1
    /\ {Pkg, Bad} \subseteq DOMAIN store
    /\ <<Bad, "broken">> \in PluginKeys(store)
    /\ { <<Pkg, "plugin_parts", "plugin_default">>,
         <<Pkg, "plugin_parts", "plugin_next">>,
         <<Pkg, "plugin_parts", "plugin_final">>,
         <<Bad, "broken", "before_crash">> } \subseteq FuncKeys(store)

\* The interpreter at its start: nothing registered, nothing imported.
Fresh ==
    [plugins |-> << >>, modules |-> {}, log |-> << >>, loads |-> << >>,
     execs |-> << >>]

\* C24: with two threads in _import for the same plug-in that had no entry,
\* both past the absence check and both calling the Loader, in whichever
\* order their steps are taken, once neither is inside _import the plug-in's
\* entry is the one a single import of the file in a fresh interpreter
\* leaves: the func_names of the file's register statements, each once, in
\* the order of the statements, with the records of those statements.
C24_RaceEqualsSequential ==
    (loading = NoLoad /\ ret.op # "in _import")
    => \A a \in RacePlugins :
          InPlugins(store, a[1], a[2])
          => LET regs == Script(Append(a[1], a[2])).regs
                 entry == DictGet(store[a[1]], a[2])
             IN  /\ InPlugins(_import(Fresh, a[1], a[2]).st.plugins, a[1], a[2])
                 /\ entry = DictGet(_import(Fresh, a[1], a[2]).st.plugins[a[1]], a[2])
                 /\ DictKeys(entry) = [i \in 1..Len(regs) |-> regs[i].func.name]
                 /\ \A i \in 1..Len(entry) :
                       /\ entry[i].v.func = regs[i].func
                       /\ entry[i].v.label = regs[i].label
                       /\ entry[i].v.sort_value = regs[i].sort_value

\* C24 witness: both threads passed the absence check for bad.broken and
\* both ran the file, the first load having failed: the function was
\* registered twice and the entry holds it once.
C24_Witness ==
    /\ ret.op = "_import" /\ ret.package = Bad /\ ret.plugin = "broken"
    /\ ret.execs = << <<"bad", "broken">> >>
    /\ ret.exc.type = "ZeroDivisionError"
    /\ loading = NoLoad
    /\ Len(LogOf(Bad)) = 2
    /\ DictKeys(DictGet(store[Bad], "broken")) = <<"before_crash">>

\* C25: in every registry state every plug-in key has at least one function
\* record under it, and a function was registered for it; so an exists that
\* returns True on its fast path, and an _import that returns on its fast
\* path, is for a plug-in with a registered function that funcs lists.
C25_NoEmptyPluginEntry ==
    /\ \A package \in DOMAIN store : \A i \in 1..Len(store[package]) :
          /\ store[package][i].v # << >>
          /\ HasRegistered(package, store[package][i].k)
          /\ ret.op = "none"
             => \E l \in AllLabels \cup {None} :
                   funcs(St, package, store[package][i].k, l).val # << >>
    /\ (ret.op = "exists" /\ ret.exc = NoError /\ ret.val)
       => /\ InPlugins(store, ret.package, ret.plugin)
          /\ DictGet(store[ret.package], ret.plugin) # << >>

\* C25 witness: exists has returned True on its fast path for a plug-in
\* with three functions, in a registry whose package also had a file loaded
\* that registers nothing and has no key.
C25_Witness ==
    /\ ret.op = "exists" /\ ret.exc = NoError /\ ret.val /\ ret.loads = << >>
    /\ ret.package = Pkg /\ ret.plugin = "plugin_parts"
    /\ Len(DictGet(store[Pkg], "plugin_parts")) = 3
    /\ <<"pkg", "no_plugins">> \in modules
    /\ ~InPlugins(store, Pkg, "no_plugins")

\* C26: in every registry state the record stored under (package, plugin,
\* func_name) carries these three as package_name, plugin_name and func_name;
\* func_name is the name of the record's function, and package and plugin
\* are the two parts of the name of the function's module split at its last
\* separator: joined again they give the module name, and a module name
\* without separator has the empty package and itself as plug-in.
C26_RecordsCarryTheirKeys ==
    \A package \in DOMAIN store : \A i \in 1..Len(store[package]) :
       \A j \in 1..Len(store[package][i].v) :
          LET plugin == store[package][i].k
              func_name == store[package][i].v[j].k
              record == store[package][i].v[j].v
          IN  /\ record.package_name = package
              /\ record.plugin_name = plugin
              /\ record.func_name = func_name
              /\ record.func.name = func_name
              /\ Append(package, plugin) = record.func.module
              /\ Len(record.func.module) = 1
                 => (package = << >> /\ plugin = record.func.module[1])
              /\ info(St, package, plugin, func_name, record.label).val = record

\* C26 witness: the registry holds a function of a top-level module, under
\* the empty package, and one of a module of a package inside a package.
C26_Witness ==
    /\ {<< >>, <<"ext", "mis">>} \subseteq DOMAIN store
    /\ InPlugins(store, << >>, "main")
    /\ DictGet(DictGet(store[<< >>], "main"), "helper").func.module = <<"main">>
    /\ InPlugins(store, <<"ext", "mis">>, "half")
    /\ DictGet(DictGet(store[<<"ext", "mis">>], "half"), "first").package_name
          = <<"ext", "mis">>
    /\ DictGet(DictGet(store[<<"ext", "mis">>], "half"), "first").func.module
          = <<"ext", "mis", "half">>

\* C27: funcs and labels for a file that the Loader loads and that
\* registers no function raise UnknownPluginError, the error info raises
\* for it, and never an error that is not a PyPlugsError.
C27_FuncsLabelsUnknownPlugin ==
    (/\ ret.op \in {"funcs", "labels"}
     /\ RegistersNothing(Append(ret.package, ret.plugin))
     /\ ~HasRegistered(ret.package, ret.plugin))
    => /\ ret.exc = UnknownPluginError(ret.package, ret.plugin)
       /\ ret.exc = info(St, ret.package, ret.plugin, None, None).exc
       /\ IsPyPlugsError(ret.exc)

\* The registry with the sort_value of every function of a package set to
\* v, but for the first unlabeled function of each plug-in.
OtherSortValues(plugins, package, v) ==
    LET changed(plugin_info) ==
           [j \in 1..Len(plugin_info) |->
              IF plugin_info[j].k = Head(FuncsOf(plugin_info, None) \o <<NotFound>>)
              THEN plugin_info[j]
              ELSE [k |-> plugin_info[j].k,
                    v |-> [plugin_info[j].v EXCEPT !.sort_value = v]]]
    IN  [plugins EXCEPT ![package] =
           [i \in 1..Len(plugins[package]) |->
              [k |-> plugins[package][i].k, v |-> changed(plugins[package][i].v)]]]

\* C28: the list names returns is ordered by the sort_value of the record
\* that info returns for each plug-in with func and label omitted, the
\* first-registered unlabeled function; with any other sort_values for the
\* other functions of the package, labeled ones included, names returns the
\* same list; and funcs lists the functions in the order of their
\* registration, whatever their sort_values.
C28_SortKeyIsTheDefaultFunction ==
    /\ (ret.op = "names" /\ ret.exc = NoError)
       => /\ \A i \in 1..Len(ret.val) :
                LET found == info(St, ret.package, ret.val[i], None, None)
                IN  /\ found.exc = NoError
                    /\ found.val.func_name
                          = Head(Partition(ret.package, ret.val[i], None))
                    /\ found.val.sort_value = SortValueOf(ret.package, ret.val[i])
          /\ \A i, j \in 1..Len(ret.val) :
                i < j => SortValueOf(ret.package, ret.val[i])
                            <= SortValueOf(ret.package, ret.val[j])
    /\ (ret.op = "funcs" /\ ret.exc = NoError)
       => ret.val = Partition(ret.package, ret.plugin, ret.label)
    /\ \A package \in DOMAIN store : \A v \in {-99, 99} :
          LET other == [St EXCEPT !.plugins = OtherSortValues(@, package, v)]
          IN  /\ names(St, package).exc = NoError
                 => names(other, package).val = names(St, package).val
              /\ \A i \in 1..Len(store[package]) : \A l \in AllLabels \cup {None} :
                    funcs(other, package, store[package][i].k, l).val
                       = funcs(St, package, store[package][i].k, l).val

\* C28 witness: names has placed plugin_added by the sort value -5 of its
\* first function, after plugin_first (-10), though its second function has
\* -30 and its labeled one 20.
C28_Witness ==
    /\ ret.op = "names" /\ ret.package = Pkg /\ ret.exc = NoError
    /\ SubSeq(ret.val, 1, 2) = <<"plugin_first", "plugin_added">>
    /\ DictGet(DictGet(store[Pkg], "plugin_added"), "added_low").sort_value = -30
    /\ DictGet(DictGet(store[Pkg], "plugin_added"), "added_labeled").sort_value = 20
    /\ funcs(St, Pkg, "plugin_added", None).val = <<"plugin_added", "added_low">>

\* C29: a register call for a func_name that the plug-in already has keeps
\* the name at its position: the plug-in's names are in the same order after
\* the call; for every label, funcs lists the other names in the same
\* relative order as before; and if the name was the first of the partition
\* of its label and is registered with that label again, info with func
\* omitted still returns it, now with the callable just registered.
C29_ReRegistrationKeepsPosition ==
    [][(/\ ret.op = "none" /\ ret'.op = "register"
        /\ InPlugins(store, ret'.package, ret'.plugin)
        /\ DictHas(DictGet(store[ret'.package], ret'.plugin), ret'.func))
       => LET before == DictGet(store[ret'.package], ret'.plugin)
              after == DictGet(store'[ret'.package], ret'.plugin)
              others(seq) == SelectSeq(seq, LAMBDA f : f # ret'.func)
              stAfter == [plugins |-> store', modules |-> modules', log |-> regLog',
                          loads |-> << >>, execs |-> << >>]
          IN  /\ DictKeys(after) = DictKeys(before)
              /\ \A l \in AllLabels \cup {None} :
                    others(funcs(stAfter, ret'.package, ret'.plugin, l).val)
                       = others(FuncsOf(before, l))
              /\ (/\ ret'.label = DictGet(before, ret'.func).label
                  /\ Head(FuncsOf(before, ret'.label)) = ret'.func)
                 => LET found == info(stAfter, ret'.package, ret'.plugin, None,
                                      ret'.label)
                    IN  /\ found.exc = NoError
                        /\ found.val.func_name = ret'.func
                        /\ found.val.func = ret'.val]_vars

\* C29 witness: plugin_default, the first function of plugin_parts, was
\* registered again without label and with another callable: funcs lists
\* the three names in their order and info with func omitted returns the
\* new callable.
C29_Witness ==
    /\ ret.op = "register" /\ ret.func = "plugin_default" /\ ret.label = None
    /\ <<"pkg", "plugin_parts">> \in modules
    /\ funcs(St, Pkg, "plugin_parts", None).val
          = <<"plugin_default", "plugin_next", "plugin_final">>
    /\ info(St, Pkg, "plugin_parts", None, None).val.func = ret.val
    /\ ret.val.result = "default2"

====
